---- MODULE Spec2Model ----
(***************************************************************************)
(* Model of aws/data_source_aws_lb.go: dataSourceAwsLbRead, the read of    *)
(* the aws_lb data source.  One invocation is one behaviour: the request   *)
(* is built from the configuration, the listing is paged, the candidates   *)
(* are filtered by their tags, exactly one must remain, and its fields,    *)
(* tags and attributes are written to the resource data d.                 *)
(*                                                                         *)
(* Every outbound call is one action; what the remote API answers is       *)
(* chosen by the action from a finite set of answers.  Strings that the    *)
(* code parses (attribute values) are sequences of one-character strings.  *)
(***************************************************************************)
EXTENDS Integers, Sequences, FiniteSets, TLC

VARIABLES
    config,            \* the configuration read through d.Get / d.GetOk
    ignoreTagsConfig,  \* meta.(*AWSClient).IgnoreTagsConfig: the ignored keys
    pc,                \* position in dataSourceAwsLbRead
    tagsToMatch,       \* line 162
    input,             \* line 164: the DescribeLoadBalancersInput
    results,           \* line 172
    loadBalancers,     \* line 189
    idx,               \* position of the loop of line 191 in results
    d,                 \* the resource data: its id and the fields set so far
    err,               \* the error returned, with the line of its return
    attributes,        \* attributesResp.Attributes, line 251
    attrIdx,           \* position of the loop of line 264
    accessLogMap,      \* line 258
    listed,            \* history: the entities accumulated by the listing
    pageLog,           \* history: the pages delivered to the callback
    log,               \* history: the outbound calls, in order
    tags,              \* line 193: the answer of the tag fetch of the loop
    failed             \* history: the keys whose d.Set returned an error

vars == <<config, ignoreTagsConfig, pc, tagsToMatch, input, results,
          loadBalancers, idx, d, err, attributes, attrIdx, accessLogMap,
          listed, pageLog, log, tags, failed>>

----------------------------------------------------------------------------
(* Bounds *)

MaxPages == 2

MaxAttrs == 2

----------------------------------------------------------------------------
(* Strings the code inspects character by character *)

TrueStr == <<"t", "r", "u", "e">>

FalseStr == <<"f", "a", "l", "s", "e">>

Digits == {"0", "1", "2", "3", "4", "5", "6", "7", "8", "9"}

DigitVal(c) ==
    CASE c = "0" -> 0 [] c = "1" -> 1 [] c = "2" -> 2 [] c = "3" -> 3
      [] c = "4" -> 4 [] c = "5" -> 5 [] c = "6" -> 6 [] c = "7" -> 7
      [] c = "8" -> 8 [] c = "9" -> 9

RECURSIVE DigitsValue(_)
DigitsValue(s) ==
    IF s = <<>> THEN 0
    ELSE 10 * DigitsValue(SubSeq(s, 1, Len(s) - 1)) + DigitVal(s[Len(s)])

AllDigits(s) == \A k \in 1..Len(s) : s[k] \in Digits


(* strconv.Atoi: an optional sign, then at least one decimal digit.  The   *)
(* strings of the model are too short to leave the range of int.           *)
Atoi(s) ==
    LET body == IF s # <<>> /\ s[1] \in {"+", "-"} THEN Tail(s) ELSE s
    IN  IF body = <<>> \/ ~AllDigits(body)
        THEN [ok |-> FALSE, n |-> 0]
        ELSE [ok |-> TRUE,
              n  |-> IF s[1] = "-" THEN -DigitsValue(body) ELSE DigitsValue(body)]

----------------------------------------------------------------------------
(* Tags: keyvaluetags.KeyValueTags, a map from key to value *)

EmptyTags == [k \in {} |-> ""]

TagKeys == {"env", "team", "aws:cf"}

TagValues(k) ==
    CASE k = "env" -> {"prod", "staging"}
      [] k = "team" -> {"x"}
      [] k = "aws:cf" -> {"stack"}

AllTagValues == UNION {TagValues(k) : k \in TagKeys}

TagMaps ==
    UNION {{t \in [S -> AllTagValues] : \A k \in S : t[k] \in TagValues(k)} :
           S \in SUBSET TagKeys}

(* KeyValueTags.IgnoreAws: drops the keys that carry the prefix "aws:" *)
AwsTagKeys == {"aws:cf"}

Restrict(kv, keep) == [k \in (DOMAIN kv) \cap keep |-> kv[k]]

IgnoreAws(kv) == Restrict(kv, (DOMAIN kv) \ AwsTagKeys)

(* KeyValueTags.IgnoreConfig: drops the keys the provider is configured to *)
(* ignore                                                                  *)
IgnoreConfig(kv, cfg) == Restrict(kv, (DOMAIN kv) \ cfg)

(* KeyValueTags.ContainsAll: every key of target is present with an equal  *)
(* value                                                                   *)
ContainsAll(kv, target) ==
    \A k \in DOMAIN target : k \in DOMAIN kv /\ kv[k] = target[k]

(* KeyValueTags.Map *)
TagsMap(kv) == [k \in DOMAIN kv |-> kv[k]]

----------------------------------------------------------------------------------------------------------------------------------------
(* The remote API: what each outbound call may answer *)

LoadBalancers ==
    { [arn |-> "arn:lb/web", name |-> "web", scheme |-> "internal"],
      [arn |-> "arn:lb/api", name |-> "api", scheme |-> "internet-facing"] }

Range(s) == {s[k] : k \in 1..Len(s)}

(* What DescribeLoadBalancers lists for a request *)
ListMatches(in) ==
    {lb \in LoadBalancers :
        /\ in.LoadBalancerArns # <<>> => lb.arn \in Range(in.LoadBalancerArns)
        /\ in.Names # <<>> => lb.name \in Range(in.Names)}

NilPage == [nil |-> TRUE, LoadBalancers |-> <<>>]

Page(lbs) == [nil |-> FALSE, LoadBalancers |-> lbs]

(* The pages the listing may deliver: nil, an empty page, one entity, two *)
WidePages(in) ==
    {NilPage, Page(<<>>)}
        \cup {Page(<<x>>) : x \in ListMatches(in)}
        \cup {Page(<<p[1], p[2]>>) :
                 p \in {q \in ListMatches(in) \X ListMatches(in) : q[1] # q[2]}}

NarrowPages(in) == {Page(<<x>>) : x \in ListMatches(in)}

PagesFor(in, wide) == IF wide THEN WidePages(in) ELSE NarrowPages(in)

NotFound == "LoadBalancerNotFound"

OtherError == "InternalFailure"

TagsAnswer(t) == [err |-> "", tags |-> t]

TagsError(code) == [err |-> code, tags |-> EmptyTags]

NoAnswer == TagsError("none")

(* What keyvaluetags.Elbv2ListTags may answer *)
WideTagAnswers ==
    {TagsError(NotFound), TagsError(OtherError)}
        \cup {TagsAnswer(t) : t \in {m \in TagMaps : DOMAIN m \subseteq {"env", "team"}}}

NarrowTagAnswers ==
    {TagsError(NotFound), TagsError(OtherError),
     TagsAnswer([k \in {"env", "aws:cf"} |-> IF k = "env" THEN "prod" ELSE "stack"])}

Attr(k, v) == [Key |-> k, Value |-> v]

BoolAttrKeys ==
    {"access_logs.s3.enabled", "routing.http.drop_invalid_header_fields.enabled",
     "deletion_protection.enabled", "routing.http2.enabled",
     "load_balancing.cross_zone.enabled"}

(* Values of the idle timeout attribute: "60", "abc", "", "-5", "+7",      *)
(* "6a", "007", "-"                                                        *)
IdleValues ==
    { <<"6", "0">>, <<"a", "b", "c">>, <<>>, <<"-", "5">>, <<"+", "7">>,
      <<"6", "a">>, <<"0", "0", "7">>, <<"-">> }

WideAttrs ==
    {Attr(k, v) : k \in BoolAttrKeys, v \in {TrueStr, FalseStr}}
        \cup {Attr("idle_timeout.timeout_seconds", v) : v \in IdleValues}
        \cup {Attr("access_logs.s3.bucket", <<"b">>),
              Attr("access_logs.s3.prefix", <<"p">>),
              Attr("routing.http.desync_mitigation_mode", <<"d">>)}

NarrowAttrs ==
    {Attr("idle_timeout.timeout_seconds", <<"6", "0">>),
     Attr("idle_timeout.timeout_seconds", <<"a", "b", "c">>),
     Attr("load_balancing.cross_zone.enabled", TrueStr)}

RECURSIVE SeqsUpTo(_, _)
SeqsUpTo(S, n) ==
    IF n = 0 THEN {<<>>}
    ELSE LET shorter == SeqsUpTo(S, n - 1)
         IN  shorter \cup {Append(s, x) : s \in shorter, x \in S}

(* What DescribeLoadBalancerAttributes may answer *)
AttrAnswers(universe) ==
    {[err |-> TRUE, Attributes |-> <<>>]}
        \cup {[err |-> FALSE, Attributes |-> l] : l \in SeqsUpTo(universe, MaxAttrs)}

----------------------------------------------------------------------------
(* The resource data *)

SchemaKeys ==
    {"arn", "arn_suffix", "name", "internal", "load_balancer_type",
     "security_groups", "subnets", "subnet_mapping", "access_logs",
     "enable_deletion_protection", "enable_http2", "idle_timeout",
     "drop_invalid_header_fields", "vpc_id", "zone_id", "dns_name",
     "ip_address_type", "customer_owned_ipv4_pool", "tags"}

(* The keys whose value is a list, a set or a map: d.Set checks the value  *)
(* against the element schema and can refuse it                            *)
AggregateKeys ==
    {"security_groups", "subnets", "subnet_mapping", "access_logs", "tags"}

NoFields == [k \in {} |-> ""]

(* d.Set(key, value) returns an error, and writes nothing, for a key the   *)
(* schema does not hold and for a value the schema refuses (refused)       *)
SetFails(key, refused) == key \notin SchemaKeys \/ key \in refused

DSet(dd, key, value, refused) ==
    IF SetFails(key, refused) THEN dd
    ELSE [dd EXCEPT !.fields =
             [k \in (DOMAIN dd.fields) \cup {key} |->
                 IF k = key THEN value ELSE dd.fields[k]]]

(* A run of d.Set calls whose errors are not looked at *)
RECURSIVE DSetAll(_, _, _)
DSetAll(dd, assignments, refused) ==
    IF assignments = <<>> THEN dd
    ELSE DSetAll(DSet(dd, assignments[1][1], assignments[1][2], refused),
                 Tail(assignments), refused)

FailedOf(assignments, refused) ==
    {assignments[k][1] :
        k \in {n \in 1..Len(assignments) : SetFails(assignments[n][1], refused)}}

NoError == [msg |-> "", args |-> <<>>, line |-> 0]

Error(msg, args, line) == [msg |-> msg, args |-> args, line |-> line]

----------------------------------------------------------------------------
(* The invocation *)

Configs ==
    [arn  : {"", "arn:lb/web"},
     name : {"", "api"},
     tags : {EmptyTags,
             [k \in {"env"} |-> "prod"],
             [k \in {"env", "team"} |-> IF k = "env" THEN "prod" ELSE "x"],
             [k \in {"team"} |-> "x"],
             [k \in {"aws:cf"} |-> "stack"]}]

IgnoreConfigs == {{}, {"team"}}

NoInput == [LoadBalancerArns |-> <<>>, Names |-> <<>>]

InitWith(configs, ignores) ==
    /\ config \in configs
    /\ ignoreTagsConfig \in ignores
    /\ pc = "start"
    /\ tagsToMatch = EmptyTags
    /\ input = NoInput
    /\ results = <<>>
    /\ loadBalancers = <<>>
    /\ idx = 1
    /\ d = [id |-> "", fields |-> NoFields]
    /\ err = NoError
    /\ attributes = <<>>
    /\ attrIdx = 1
    /\ accessLogMap = [bucket |-> <<>>, enabled |-> FALSE, prefix |-> <<>>]
    /\ listed = <<>>
    /\ pageLog = <<>>
    /\ log = <<>>
    /\ tags = NoAnswer
    /\ failed = {}

Init == InitWith(Configs, IgnoreConfigs)

(* d.GetOk: the value, and whether it is set to something other than "" *)
GetOk(cfg, key) == [v |-> cfg[key], ok |-> cfg[key] # ""]

(* lines 164-170 *)
(* Variant: the name is looked at before the identifier *)
BuildInputNameFirst(cfg) ==
    IF GetOk(cfg, "name").ok
    THEN [NoInput EXCEPT !.Names = <<GetOk(cfg, "name").v>>]
    ELSE IF GetOk(cfg, "arn").ok
         THEN [NoInput EXCEPT !.LoadBalancerArns = <<GetOk(cfg, "arn").v>>]
         ELSE NoInput

BuildInput(cfg) ==
    IF GetOk(cfg, "arn").ok
    THEN [NoInput EXCEPT !.LoadBalancerArns = <<GetOk(cfg, "arn").v>>]
    ELSE IF GetOk(cfg, "name").ok
         THEN [NoInput EXCEPT !.Names = <<GetOk(cfg, "name").v>>]
         ELSE NoInput

(* line 162 *)
(* Variant: the configured tags, nothing ignored *)
TagsToMatchRaw(cfg, ignores) == cfg.tags

TagsToMatch(cfg, ignores) == IgnoreConfig(IgnoreAws(cfg.tags), ignores)

(* lines 158-172 *)
Start ==
    /\ pc = "start"
    /\ tagsToMatch' = TagsToMatch(config, ignoreTagsConfig)
    /\ input' = BuildInput(config)
    /\ results' = <<>>
    /\ pc' = "list"
    /\ UNCHANGED <<config, ignoreTagsConfig, loadBalancers, idx, d, err,
                   attributes, attrIdx, accessLogMap, listed, pageLog, log,
                   tags, failed>>

(* lines 174-182: the callback of DescribeLoadBalancersPages *)
(* Variant: a nil page stops the paging *)
PageCallbackNilStops(res, page, lastPage) ==
    IF page.nil
    THEN [results |-> res, continue |-> FALSE]
    ELSE [results |-> res \o page.LoadBalancers, continue |-> ~lastPage]

PageCallback(res, page, lastPage) ==
    IF page.nil
    THEN [results |-> res, continue |-> ~lastPage]
    ELSE [results |-> res \o page.LoadBalancers, continue |-> ~lastPage]

(* line 188: where the code goes once the listing has ended *)
(* Variant: the filter loop runs whatever the predicate *)
AfterListAlwaysFilters == "filter"

AfterList == IF DOMAIN tagsToMatch # {} THEN "filter" ELSE "check"

(* line 174: one page of DescribeLoadBalancersPages.  The paging goes on   *)
(* while the callback returns true and the page is not the last one.       *)
DescribeLoadBalancersPage(wide) ==
    /\ pc = "list"
    /\ Len(pageLog) < MaxPages
    /\ \E page \in PagesFor(input, wide), lastPage \in BOOLEAN :
          /\ Len(pageLog) = MaxPages - 1 => lastPage
          /\ LET r == PageCallback(results, page, lastPage)
             IN  /\ results' = r.results
                 /\ listed' = r.results
                 /\ pc' = IF r.continue /\ ~lastPage THEN "list" ELSE AfterList
          /\ pageLog' = Append(pageLog, [page |-> page, lastPage |-> lastPage])
    /\ log' = Append(log, <<"DescribeLoadBalancers">>)
    /\ UNCHANGED <<config, ignoreTagsConfig, tagsToMatch, input, loadBalancers,
                   idx, d, err, attributes, attrIdx, accessLogMap, tags, failed>>

(* lines 184-186: a page request fails *)
DescribeLoadBalancersFails ==
    /\ pc = "list"
    /\ Len(pageLog) < MaxPages
    /\ log' = Append(log, <<"DescribeLoadBalancers">>)
    /\ err' = Error("error retrieving LB: %w", <<>>, 185)
    /\ pc' = "error"
    /\ UNCHANGED <<config, ignoreTagsConfig, tagsToMatch, input, results,
                   loadBalancers, idx, d, attributes, attrIdx, accessLogMap,
                   listed, pageLog, tags, failed>>

(* lines 192-207: one iteration of the filter loop, given the answer of    *)
(* Elbv2ListTags for the candidate                                         *)
(* Variant: one matching key is enough *)
FilterCandidateAnyKey(acc, lb, answer, target) ==
    IF answer.err = NotFound THEN [loadBalancers |-> acc, abort |-> FALSE]
    ELSE IF answer.err # "" THEN [loadBalancers |-> acc, abort |-> TRUE]
    ELSE IF ~(\E k \in DOMAIN target :
                 k \in DOMAIN answer.tags /\ answer.tags[k] = target[k])
         THEN [loadBalancers |-> acc, abort |-> FALSE]
         ELSE [loadBalancers |-> Append(acc, lb), abort |-> FALSE]

(* Variant: not-found is an error like any other *)
FilterCandidateNotFoundAborts(acc, lb, answer, target) ==
    IF answer.err # "" THEN [loadBalancers |-> acc, abort |-> TRUE]
    ELSE IF ~ContainsAll(answer.tags, target)
         THEN [loadBalancers |-> acc, abort |-> FALSE]
         ELSE [loadBalancers |-> Append(acc, lb), abort |-> FALSE]

FilterCandidate(acc, lb, answer, target) ==
    IF answer.err = NotFound THEN [loadBalancers |-> acc, abort |-> FALSE]
    ELSE IF answer.err # "" THEN [loadBalancers |-> acc, abort |-> TRUE]
    ELSE IF ~ContainsAll(answer.tags, target)
         THEN [loadBalancers |-> acc, abort |-> FALSE]
         ELSE [loadBalancers |-> Append(acc, lb), abort |-> FALSE]

(* lines 191-208 *)
ListTagsForCandidate(Answers) ==
    /\ pc = "filter"
    /\ idx <= Len(results)
    /\ \E answer \in Answers :
          LET lb == results[idx]
              r  == FilterCandidate(loadBalancers, lb, answer, tagsToMatch)
          IN  /\ tags' = answer
              /\ log' = Append(log, <<"ListTags", lb.arn>>)
              /\ loadBalancers' = r.loadBalancers
              /\ idx' = IF r.abort THEN idx ELSE idx + 1
              /\ pc' = IF r.abort THEN "error" ELSE "filter"
              /\ err' = IF r.abort
                        THEN Error("error listing tags for (%s): %w", <<lb.arn>>, 200)
                        ELSE err
    /\ UNCHANGED <<config, ignoreTagsConfig, tagsToMatch, input, results, d,
                   attributes, attrIdx, accessLogMap, listed, pageLog, failed>>

(* line 210 *)
FilterDone ==
    /\ pc = "filter"
    /\ idx > Len(results)
    /\ results' = loadBalancers
    /\ tags' = NoAnswer
    /\ pc' = "check"
    /\ UNCHANGED <<config, ignoreTagsConfig, tagsToMatch, input, loadBalancers,
                   idx, d, err, attributes, attrIdx, accessLogMap, listed,
                   pageLog, log, failed>>

(* lines 221-231: the assignments whose error is not looked at *)
CoreAssignments(lb) ==
    << <<"arn", lb.arn>>,
       <<"arn_suffix", <<"lbSuffixFromARN", lb.arn>> >>,
       <<"name", lb.name>>,
       <<"internal", lb.scheme = "internal">>,
       <<"security_groups", <<"SecurityGroups", lb.arn>> >>,
       <<"vpc_id", <<"VpcId", lb.arn>> >>,
       <<"zone_id", <<"CanonicalHostedZoneId", lb.arn>> >>,
       <<"dns_name", <<"DNSName", lb.arn>> >>,
       <<"ip_address_type", <<"IpAddressType", lb.arn>> >>,
       <<"load_balancer_type", <<"Type", lb.arn>> >>,
       <<"customer_owned_ipv4_pool", <<"CustomerOwnedIpv4Pool", lb.arn>> >> >>

(* line 213: whether the search is refused *)
(* Variant: several results pass *)
CardinalityFailsOnNone(res) == Len(res) = 0

CardinalityFails(res) == Len(res) # 1

(* lines 213-239: the outcome of the cardinality check and of the          *)
(* assignments that follow it, given the keys whose value d.Set refuses    *)
(* Variant: the identifier is set before the count is checked *)
ResolveOutcomeIdFirst(res, dd, refused) ==
    LET d0 == [dd EXCEPT !.id = IF res = <<>> THEN "" ELSE res[1].arn]
    IN  IF CardinalityFails(res)
        THEN [d |-> d0, failed |-> {},
              err |-> Error("Search returned %d results, please revise so only one is returned",
                            <<Len(res)>>, 214)]
        ELSE [d |-> DSetAll(d0, CoreAssignments(res[1]), refused),
              failed |-> FailedOf(CoreAssignments(res[1]), refused),
              err |-> NoError]

ResolveOutcome(res, dd, refused) ==
    IF CardinalityFails(res)
    THEN [d |-> dd, failed |-> {},
          err |-> Error("Search returned %d results, please revise so only one is returned",
                        <<Len(res)>>, 214)]
    ELSE LET lb   == res[1]
             d1   == DSetAll([dd EXCEPT !.id = lb.arn], CoreAssignments(lb), refused)
             f1   == FailedOf(CoreAssignments(lb), refused)
             d2   == DSet(d1, "subnets", <<"subnets", lb.arn>>, refused)
             d3   == DSet(d2, "subnet_mapping", <<"subnet_mapping", lb.arn>>, refused)
         IN  IF SetFails("subnets", refused)
             THEN [d |-> d2, failed |-> f1 \cup {"subnets"},
                   err |-> Error("error setting subnets: %w", <<>>, 234)]
             ELSE IF SetFails("subnet_mapping", refused)
                  THEN [d |-> d3, failed |-> f1 \cup {"subnet_mapping"},
                        err |-> Error("error setting subnet_mapping: %w", <<>>, 238)]
                  ELSE [d |-> d3, failed |-> f1, err |-> NoError]

(* lines 213-239 *)
Resolve(Refusals) ==
    /\ pc = "check"
    /\ \E refused \in Refusals :
          LET r == ResolveOutcome(results, d, refused)
          IN  /\ d' = r.d
              /\ failed' = failed \cup r.failed
              /\ err' = r.err
              /\ pc' = IF r.err.msg = "" THEN "tags" ELSE "error"
    /\ UNCHANGED <<config, ignoreTagsConfig, tagsToMatch, input, results,
                   loadBalancers, idx, attributes, attrIdx, accessLogMap,
                   listed, pageLog, log, tags>>

(* lines 241-249: the outcome of the final tag fetch for the resolved      *)
(* identifier and of the assignment of tags                                *)
FinalTagsOutcome(dd, answer, ignores, refused) ==
    IF answer.err # ""
    THEN [d |-> dd, failed |-> {},
          err |-> Error("error listing tags for (%s): %w", <<dd.id>>, 244)]
    ELSE LET value == TagsMap(IgnoreConfig(IgnoreAws(answer.tags), ignores))
         IN  IF SetFails("tags", refused)
             THEN [d |-> dd, failed |-> {"tags"},
                   err |-> Error("error setting tags: %w", <<>>, 248)]
             ELSE [d |-> DSet(dd, "tags", value, refused), failed |-> {},
                   err |-> NoError]

(* lines 241-249 *)
ListTagsForResolved(Answers, Refusals) ==
    /\ pc = "tags"
    /\ \E answer \in Answers, refused \in Refusals :
          LET r == FinalTagsOutcome(d, answer, ignoreTagsConfig, refused)
          IN  /\ d' = r.d
              /\ failed' = failed \cup r.failed
              /\ err' = r.err
              /\ pc' = IF r.err.msg = "" THEN "attributes" ELSE "error"
    /\ log' = Append(log, <<"ListTags", d.id>>)
    /\ UNCHANGED <<config, ignoreTagsConfig, tagsToMatch, input, results,
                   loadBalancers, idx, attributes, attrIdx, accessLogMap,
                   listed, pageLog, tags>>

(* lines 251-262 *)
DescribeLoadBalancerAttributes(Universe) ==
    /\ pc = "attributes"
    /\ \E answer \in AttrAnswers(Universe) :
          /\ attributes' = answer.Attributes
          /\ err' = IF answer.err
                    THEN Error("error retrieving LB Attributes: %w", <<>>, 255)
                    ELSE err
          /\ pc' = IF answer.err THEN "error" ELSE "loop"
    /\ attrIdx' = 1
    /\ accessLogMap' = [bucket |-> <<>>, enabled |-> FALSE, prefix |-> <<>>]
    /\ log' = Append(log, <<"DescribeLoadBalancerAttributes", d.id>>)
    /\ UNCHANGED <<config, ignoreTagsConfig, tagsToMatch, input, results,
                   loadBalancers, idx, d, listed, pageLog, tags, failed>>

(* lines 272-277: the idle timeout attribute *)
(* Variant: the parse error is not looked at *)
IdleTimeoutLenient(dd, value) ==
    [d |-> DSet(dd, "idle_timeout", Atoi(value).n, {}),
     err |-> NoError]

IdleTimeout(dd, value) ==
    LET timeout == Atoi(value)
    IN  IF ~timeout.ok
        THEN [d |-> dd, err |-> Error("error parsing ALB timeout: %w", <<>>, 275)]
        ELSE [d |-> DSet(dd, "idle_timeout", timeout.n, {}), err |-> NoError]

(* lines 265-290: the switch on the key of one attribute *)
ApplyAttribute(dd, alm, attr) ==
    LET key   == attr.Key
        value == attr.Value
        same  == [d |-> dd, accessLogMap |-> alm, err |-> NoError, set |-> {}]
    IN  CASE key = "access_logs.s3.enabled" ->
               [same EXCEPT !.accessLogMap = [alm EXCEPT !.enabled = (value = TrueStr)]]
          [] key = "access_logs.s3.bucket" ->
               [same EXCEPT !.accessLogMap = [alm EXCEPT !.bucket = value]]
          [] key = "access_logs.s3.prefix" ->
               [same EXCEPT !.accessLogMap = [alm EXCEPT !.prefix = value]]
          [] key = "idle_timeout.timeout_seconds" ->
               LET r == IdleTimeout(dd, value)
               IN  [same EXCEPT !.d = r.d, !.err = r.err,
                                !.set = IF r.err.msg = "" THEN {"idle_timeout"} ELSE {}]
          [] key = "routing.http.drop_invalid_header_fields.enabled" ->
               [same EXCEPT !.d = DSet(dd, "drop_invalid_header_fields", value = TrueStr, {}),
                            !.set = {"drop_invalid_header_fields"}]
          [] key = "deletion_protection.enabled" ->
               [same EXCEPT !.d = DSet(dd, "enable_deletion_protection", value = TrueStr, {}),
                            !.set = {"enable_deletion_protection"}]
          [] key = "routing.http2.enabled" ->
               [same EXCEPT !.d = DSet(dd, "enable_http2", value = TrueStr, {}),
                            !.set = {"enable_http2"}]
          [] key = "load_balancing.cross_zone.enabled" ->
               [same EXCEPT !.d = DSet(dd, "enable_cross_zone_load_balancing",
                                       value = TrueStr, {}),
                            !.set = {"enable_cross_zone_load_balancing"}]
          [] OTHER -> same

(* lines 264-291: one iteration of the loop over the attributes *)
NextAttribute ==
    /\ pc = "loop"
    /\ attrIdx <= Len(attributes)
    /\ LET r == ApplyAttribute(d, accessLogMap, attributes[attrIdx])
       IN  /\ d' = r.d
           /\ accessLogMap' = r.accessLogMap
           /\ err' = r.err
           /\ failed' = failed \cup {k \in r.set : SetFails(k, {})}
           /\ attrIdx' = IF r.err.msg = "" THEN attrIdx + 1 ELSE attrIdx
           /\ pc' = IF r.err.msg = "" THEN "loop" ELSE "error"
    /\ UNCHANGED <<config, ignoreTagsConfig, tagsToMatch, input, results,
                   loadBalancers, idx, attributes, listed, pageLog, log, tags>>

(* lines 293-297 *)
SetAccessLogs(Refusals) ==
    /\ pc = "loop"
    /\ attrIdx > Len(attributes)
    /\ \E refused \in Refusals :
          /\ d' = DSet(d, "access_logs", <<accessLogMap>>, refused)
          /\ failed' = IF SetFails("access_logs", refused)
                       THEN failed \cup {"access_logs"} ELSE failed
          /\ err' = IF SetFails("access_logs", refused)
                    THEN Error("error setting access_logs: %w", <<>>, 294)
                    ELSE err
          /\ pc' = IF SetFails("access_logs", refused) THEN "error" ELSE "done"
    /\ UNCHANGED <<config, ignoreTagsConfig, tagsToMatch, input, results,
                   loadBalancers, idx, attributes, attrIdx, accessLogMap,
                   listed, pageLog, log, tags>>

----------------------------------------------------------------------------
(* The values d.Set may refuse in one step: nothing, or one aggregate *)
Refusals == {{}} \cup {{k} : k \in AggregateKeys}

NoRefusals == {{}}

Next ==
    \/ Start
    \/ DescribeLoadBalancersPage(TRUE)
    \/ DescribeLoadBalancersFails
    \/ ListTagsForCandidate(WideTagAnswers)
    \/ FilterDone
    \/ Resolve(Refusals)
    \/ ListTagsForResolved(NarrowTagAnswers, Refusals)
    \/ DescribeLoadBalancerAttributes(NarrowAttrs)
    \/ NextAttribute
    \/ SetAccessLogs(Refusals)

Spec == Init /\ [][Next]_vars

(* The same invocation for a configured identifier, with one entity per    *)
(* page and the attribute lists over every key and idle timeout value     *)
InitProject ==
    InitWith({c \in Configs : c.arn # "" /\ c.name = "" /\ DOMAIN c.tags \subseteq {"env"}},
             {{}})

NextProject ==
    \/ Start
    \/ DescribeLoadBalancersPage(FALSE)
    \/ DescribeLoadBalancersFails
    \/ ListTagsForCandidate(NarrowTagAnswers)
    \/ FilterDone
    \/ Resolve(NoRefusals)
    \/ ListTagsForResolved(NarrowTagAnswers, NoRefusals)
    \/ DescribeLoadBalancerAttributes(WideAttrs)
    \/ NextAttribute
    \/ SetAccessLogs(NoRefusals)

SpecProject == InitProject /\ [][NextProject]_vars

----------------------------------------------------------------------------
(* Properties *)

(* The entities that survive the filter: the filtered candidates when a    *)
(* tag predicate is in force, the listing otherwise                        *)
Survivors == IF DOMAIN tagsToMatch # {} THEN loadBalancers ELSE listed

(* The cardinality check of line 213 has been executed *)
PastCheck ==
    \/ pc \in {"tags", "attributes", "loop", "done"}
    \/ pc = "error" /\ err.line \notin {185, 200}

Resolved == pc \in {"tags", "attributes", "loop", "done"} \/ d.id # ""

(* C1: the invocation resolves only when exactly one entity survives the   *)
(* filter, the identifier is then that entity's, and with zero or several  *)
(* survivors it fails with an error that carries their exact number.       *)
C1_ExactlyOne ==
    /\ Resolved => /\ Len(Survivors) = 1
                   /\ d.id = Survivors[1].arn
                   /\ PastCheck
    /\ PastCheck /\ Len(Survivors) = 1 => Resolved
    /\ PastCheck /\ Len(Survivors) # 1 =>
          /\ pc = "error"
          /\ err.line = 214
          /\ err.msg = "Search returned %d results, please revise so only one is returned"
          /\ err.args = <<Len(Survivors)>>
          /\ d.id = ""

C1_Witness ==
    /\ Len(listed) = 3
    /\ DOMAIN tagsToMatch # {}
    /\ pc = "tags"
    /\ d.id = loadBalancers[1].arn

(* C2 as stated: an invocation that ends in an error leaves the record     *)
(* with no identifier and no projected field.                              *)
C2_NoPartialResults ==
    pc = "error" => d.id = "" /\ DOMAIN d.fields = {}

(* C2 as amended: an error returned before the cardinality check has       *)
(* passed (lines 185, 200, 214) leaves the record with no identifier and   *)
(* no field; an error returned later leaves the identifier, and the fields *)
(* assigned before the error, in the record.                               *)
C2_NoPartialResultsBeforeResolution ==
    pc = "error" =>
        IF err.line \in {185, 200, 214}
        THEN d.id = "" /\ DOMAIN d.fields = {}
        ELSE /\ d.id = Survivors[1].arn
             /\ {"arn", "name", "internal"} \subseteq DOMAIN d.fields
             /\ err.line \in {244, 248, 255, 275, 294} =>
                    {"subnets", "subnet_mapping"} \subseteq DOMAIN d.fields
             /\ err.line \in {255, 275, 294} => "tags" \in DOMAIN d.fields

C2_Witness ==
    /\ pc = "error"
    /\ err.line = 214
    /\ Len(listed) = 2
    /\ d.id = ""

RECURSIVE IsSubsequence(_, _)
IsSubsequence(s, t) ==
    IF s = <<>> THEN TRUE
    ELSE IF t = <<>> THEN FALSE
    ELSE IF s[1] = t[1] THEN IsSubsequence(Tail(s), Tail(t))
    ELSE IsSubsequence(s, Tail(t))

(* A step of the filter loop: a tag fetch for the candidate results[idx] *)
FilterStep == pc = "filter" /\ idx <= Len(results) /\ log' # log

(* C3: under a non-empty predicate the candidate of an iteration survives  *)
(* exactly when its tag fetch succeeds and its tags hold every key of the  *)
(* predicate with an equal value; the survivors are a subsequence of the   *)
(* listing, in its order.                                                  *)
C3_ConjunctiveFilter ==
    /\ [](/\ IsSubsequence(loadBalancers, SubSeq(listed, 1, idx - 1))
          /\ pc \in {"check", "tags", "attributes", "loop", "done"} /\ DOMAIN tagsToMatch # {}
                => results = loadBalancers /\ idx = Len(listed) + 1)
    /\ [][FilterStep =>
            /\ DOMAIN tagsToMatch # {}
            /\ loadBalancers' =
                  IF /\ tags'.err = ""
                     /\ \A k \in DOMAIN tagsToMatch :
                           k \in DOMAIN tags'.tags /\ tags'.tags[k] = tagsToMatch[k]
                  THEN Append(loadBalancers, listed[idx])
                  ELSE loadBalancers]_vars

C3_Witness ==
    /\ pc = "filter"
    /\ idx = 3
    /\ tags.err = ""
    /\ DOMAIN tagsToMatch = {"env"}
    /\ DOMAIN tags.tags = {"env", "team"}
    /\ loadBalancers = <<listed[2]>>

(* C4: in the filter loop a not-found answer drops the candidate and the   *)
(* loop goes on with the next one; any other error ends the invocation at  *)
(* once with the error of line 200, nothing resolved, the remaining        *)
(* candidates not fetched.                                                 *)
C4_NotFoundDropsOtherErrorAborts ==
    /\ [][FilterStep /\ tags'.err = NotFound =>
            /\ pc' = "filter"
            /\ idx' = idx + 1
            /\ loadBalancers' = loadBalancers
            /\ err' = NoError]_vars
    /\ [][FilterStep /\ tags'.err \notin {"", NotFound} =>
            /\ pc' = "error"
            /\ err'.line = 200
            /\ err'.args = <<results[idx].arn>>
            /\ d'.id = ""
            /\ idx' = idx]_vars
    /\ [][pc = "error" => log' = log /\ d' = d /\ pc' = "error"]_vars

C4_Witness ==
    /\ pc = "error"
    /\ err.line = 200
    /\ idx = 2
    /\ Len(results) = 3
    /\ loadBalancers = <<>>

ListCall == <<"DescribeLoadBalancers">>

(* The fetches of the filter loop for the first m listed candidates *)
CandidateCalls(m) == [k \in 1..m |-> <<"ListTags", listed[k].arn>>]

(* The two calls of the projection for the resolved identifier *)
ProjectionCalls ==
    << <<"ListTags", d.id>>, <<"DescribeLoadBalancerAttributes", d.id>> >>

ListCallCount == Cardinality({k \in 1..Len(log) : log[k] = ListCall})

AfterListCalls == SubSeq(log, ListCallCount + 1, Len(log))

(* The log is: the list calls, the fetches for the first m candidates,     *)
(* then the first t calls of the projection                                *)
LogIs(m, t) ==
    /\ \A k \in 1..ListCallCount : log[k] = ListCall
    /\ AfterListCalls = CandidateCalls(m) \o SubSeq(ProjectionCalls, 1, t)

ListingComplete == pageLog # <<>> /\ pageLog[Len(pageLog)].lastPage

(* C5: the calls are issued in sequence: list pages, then, only under a    *)
(* tag predicate, one tag fetch per listed candidate in listing order,     *)
(* then one tag fetch and one attribute fetch for the resolved identifier; *)
(* no stage starts before the one before it is complete and none after a   *)
(* failure.                                                                *)
C5_CallsInSequence ==
    \E m \in 0..Len(listed), t \in 0..2 :
        /\ LogIs(m, t)
        /\ ListCallCount = Len(pageLog) + (IF pc = "error" /\ err.line = 185 THEN 1 ELSE 0)
        /\ m > 0 => DOMAIN tagsToMatch # {} /\ ListingComplete
        /\ t > 0 => /\ ListingComplete
                    /\ DOMAIN tagsToMatch # {} => m = Len(listed)
                    /\ Len(Survivors) = 1
                    /\ d.id = Survivors[1].arn
        /\ pc = "done" => t = 2 /\ (DOMAIN tagsToMatch # {} => m = Len(listed))
        /\ pc = "error" =>
              CASE err.line = 185 -> m = 0 /\ t = 0
                [] err.line = 200 -> m = idx /\ t = 0
                [] err.line \in {214, 234, 238} -> t = 0
                [] err.line \in {244, 248} -> t = 1
                [] OTHER -> t = 2

C5_Witness ==
    /\ pc = "done"
    /\ Len(pageLog) = 2
    /\ Len(listed) = 3
    /\ Len(log) = 7

(* C6: an assignment that fails ends the invocation with an error, so no   *)
(* invocation succeeds after a failed assignment.                          *)
C6_FailedAssignmentAborts ==
    pc = "done" => failed = {}

(* The entities of the pages delivered, nil pages skipped *)
RECURSIVE Accumulated(_)
Accumulated(pages) ==
    IF pages = <<>> THEN <<>>
    ELSE Accumulated(SubSeq(pages, 1, Len(pages) - 1))
            \o (IF pages[Len(pages)].page.nil THEN <<>>
                ELSE pages[Len(pages)].page.LoadBalancers)

(* C7 as stated: a nil page ends the listing, no page is requested after   *)
(* it.                                                                     *)
C7_NilPageEndsListing ==
    \A k \in 1..Len(pageLog) : pageLog[k].page.nil => k = Len(pageLog)

(* C7 as amended: the entities of all pages are accumulated in arrival     *)
(* order; a nil page adds nothing and does not abort; after any page, nil  *)
(* or not, the next one is requested exactly when the page is not the last *)
(* one, and the invocation goes on with what was accumulated.              *)
C7_NilPageSkipped ==
    /\ listed = Accumulated(pageLog)
    /\ pc \in {"list", "filter"} => results = listed
    /\ \A k \in 1..Len(pageLog) - 1 : ~pageLog[k].lastPage
    /\ pc = "list" /\ pageLog # <<>> => ~pageLog[Len(pageLog)].lastPage
    /\ pc \notin {"start", "list"} /\ ~(pc = "error" /\ err.line = 185) => ListingComplete
    /\ pc = "error" /\ err.line = 185 => Len(log) = Len(pageLog) + 1

C7_Witness ==
    /\ Len(pageLog) = 2
    /\ pageLog[1].page.nil
    /\ ~pageLog[2].page.nil
    /\ listed # <<>>
    /\ pc = "tags"

(* C8: the request filters by the identifier when one is configured, by    *)
(* the name only when no identifier is, by nothing when neither is; never  *)
(* by both; and no error is returned before the first page is requested.   *)
C8_RequestFilter ==
    pc # "start" =>
        /\ config.arn # "" => input = [LoadBalancerArns |-> <<config.arn>>, Names |-> <<>>]
        /\ config.arn = "" /\ config.name # "" =>
              input = [LoadBalancerArns |-> <<>>, Names |-> <<config.name>>]
        /\ config.arn = "" /\ config.name = "" =>
              input = [LoadBalancerArns |-> <<>>, Names |-> <<>>]
        /\ input.LoadBalancerArns = <<>> \/ input.Names = <<>>
        /\ pc = "error" => log # <<>>

C8_Witness ==
    /\ config.arn # ""
    /\ config.name # ""
    /\ pc = "list"
    /\ input.Names = <<>>

IdleKey == "idle_timeout.timeout_seconds"

(* What strconv.Atoi gives for the idle timeout values of the model:       *)
(* "60" -> 60, "-5" -> -5, "+7" -> 7, "007" -> 7; "abc", "", "6a" and "-"  *)
(* are no integers                                                         *)
IsInteger(v) ==
    v \in {<<"6", "0">>, <<"-", "5">>, <<"+", "7">>, <<"0", "0", "7">>}

IntegerOf(v) ==
    CASE v = <<"6", "0">> -> 60
      [] v = <<"-", "5">> -> -5
      [] v = <<"+", "7">> -> 7
      [] v = <<"0", "0", "7">> -> 7

(* The field an attribute key is projected to *)
FieldsOf(key) ==
    CASE key = IdleKey -> {"idle_timeout"}
      [] key = "routing.http.drop_invalid_header_fields.enabled" -> {"drop_invalid_header_fields"}
      [] key = "deletion_protection.enabled" -> {"enable_deletion_protection"}
      [] key = "routing.http2.enabled" -> {"enable_http2"}
      [] OTHER -> {}

AttributeFields ==
    {"idle_timeout", "drop_invalid_header_fields", "enable_deletion_protection",
     "enable_http2", "enable_cross_zone_load_balancing", "access_logs"}

(* An iteration of the attribute loop that meets the idle timeout *)
IdleStep ==
    /\ pc = "loop"
    /\ attrIdx <= Len(attributes)
    /\ attributes[attrIdx].Key = IdleKey
    /\ attrIdx' # attrIdx \/ pc' # pc

PredicateKeys == {k \in DOMAIN config.tags : k # "aws:cf" /\ k \notin ignoreTagsConfig}

TagCalls == {k \in 1..Len(log) : log[k][1] = "ListTags"}

(* C10: when no key of the predicate is left after the reserved and the    *)
(* ignored keys are removed, no candidate's tags are fetched, every listed *)
(* entity counts for the exactly-one check, and a successful invocation    *)
(* fetches tags once, for the resolved identifier.                         *)
C10_EmptyPredicateSkipsFilter ==
    pc # "start" /\ PredicateKeys = {} =>
        /\ tagsToMatch = EmptyTags
        /\ pc # "filter"
        /\ loadBalancers = <<>>
        /\ results = listed
        /\ tags = NoAnswer
        /\ PastCheck => (Len(listed) = 1 <=> Resolved)
        /\ Cardinality(TagCalls) <= 1
        /\ \A k \in TagCalls : log[k] = <<"ListTags", d.id>> /\ d.id = listed[1].arn
        /\ pc = "done" => Cardinality(TagCalls) = 1

C10_Witness ==
    /\ pc = "done"
    /\ DOMAIN config.tags = {"team"}
    /\ ignoreTagsConfig = {"team"}
    /\ Cardinality(TagCalls) = 1

====
